---- MODULE Spec2Model ----
(***************************************************************************)
(* Model of TestCases/py_wrapper/adap_amg/launch_adap.py: main(), the      *)
(* script that drives the SU2 discrete-adjoint driver through a direct     *)
(* solve, an adjoint solve and the error estimation that fills the         *)
(* adaptation dataset Sol.                                                 *)
(*                                                                         *)
(* One process runs main().  pc is the source line the process is about to *)
(* execute.  The SU2 drivers are opaque: every value a driver call returns *)
(* is chosen from a bounded set when the call is made.                     *)
(***************************************************************************)
EXTENDS Integers, Sequences, FiniteSets, TLC

(* ---- bounds of the model ---- *)
MaxIter == 2
MaxVertex == 1
MaxPoint == 3
MaxVar == 2
\* the parallel run: number of processes, and the largest iteration count there
NumProcs == 2
MaxIterPar == 1

(* ---- values of the script and of the driver's answers ---- *)
MarkerName == "airfoil"
MarkerNames == {"airfoil", "farfield"}
\* Python's None and a bound value, for MarkerID
None == << >>
Some(x) == << x >>

\* the ranks a process of a parallel run may have
Ranks == {0, 1}
\* the processes of the parallel run, and the iteration counts they read
Procs == 0 .. (NumProcs - 1)
ParIterValues == 0 .. MaxIterPar
\* what GetAllBoundaryMarkersTag may return
MarkerLists == { {"farfield"}, MarkerNames }
\* what GetAllBoundaryMarkers may return: rank-local name -> index mappings
MarkerMaps ==
  { [n \in {"farfield"} |-> 0],
    [n \in MarkerNames |-> IF n = "airfoil" THEN 0 ELSE 1] }
VertexCounts == 0 .. MaxVertex
IterValues == 0 .. MaxIter
PointCounts == 0 .. MaxPoint
VarCounts == 0 .. MaxVar
\* the tables GetAdaptationData may answer from, indexed as the call is made,
\* <<iVar, iPoint>>: all zero, or 1, 2 in the first row, 3, 4 in the second, ...
AdaptTables ==
  { [c \in (0 .. MaxVar) \X (0 .. MaxPoint) |-> 0],
    [c \in (0 .. MaxVar) \X (0 .. MaxPoint) |-> c[2] * 2 + c[1] + 1] }

VARIABLES
  pc,                   \* source line about to be executed, or "returned"
  with_MPI,             \* options.with_MPI
  rank,                 \* rank (0 in a serial run)
  SU2Driver,            \* "unbound", "live", "finalized" (Postprocessing called), "deleted"
  SU2Error,             \* "unbound", "live"
  MarkerList, allMarkerIDs, MarkerID,
  nVertex_Marker, nVertex_Marker_HALO, nVertex_Marker_PHYS,
  TimeIter, nTimeIter, stopCalc,
  nPoint_Local, nVar_Par, Sol, iPoint, iVar,
  adaptData,            \* driver side: the table SetAdaptationData packed
  stdout,               \* what the script printed
  calls,                \* history: driver calls since the current phase was entered
  phaseLog,             \* history: the orchestration events of the run, in order
  SolWrites,            \* history: number of assignments to each cell of Sol
  \* the run as a group of processes, each executing main
  procPc,               \* of each process: source line about to be executed
  procTimeIter,         \* of each process: TimeIter
  procNTimeIter,        \* of each process: nTimeIter
  barriersEntered,      \* of each process: number of comm.Barrier() calls made
  adjointStepped        \* history, of each process: an adjoint iteration was made

markerVars == << MarkerList, allMarkerIDs, MarkerID,
                 nVertex_Marker, nVertex_Marker_HALO, nVertex_Marker_PHYS >>
iterVars == << TimeIter, nTimeIter, stopCalc >>
solVars == << nPoint_Local, nVar_Par, Sol, iPoint, iVar, adaptData, SolWrites >>
driverVars == << SU2Driver, SU2Error >>
parVars == << procPc, procTimeIter, procNTimeIter, barriersEntered, adjointStepped >>
\* what no step of the one process changes: its options, and the group view
optVars == << with_MPI, rank, parVars >>
\* what no step of the group view changes: the one process seen line by line
mainVars == << pc, rank, SU2Driver, SU2Error, MarkerList, allMarkerIDs, MarkerID,
               nVertex_Marker, nVertex_Marker_HALO, nVertex_Marker_PHYS,
               TimeIter, nTimeIter, stopCalc, nPoint_Local, nVar_Par, Sol, iPoint, iVar,
               adaptData, stdout, calls, phaseLog, SolWrites >>
vars == << with_MPI, mainVars, parVars >>

(* ---- history helpers ---- *)
\* one driver call: operation, arguments, returned value (<< >> when none)
Call(op, args, ret) == [op |-> op, args |-> args, ret |-> ret]
\* an orchestration event is recorded once per run of equal events
Event(log, e) == IF Len(log) > 0 /\ log[Len(log)] = e THEN log ELSE Append(log, e)

\* comm.Barrier() is called only in a parallel run
Barrier(log) == IF with_MPI THEN Append(log, Call("Barrier", << >>, << >>)) ELSE log
\* one print statement: its text and the data printed with it
Line(text, data) == [text |-> text, data |-> data]
\* rank 0 prints the banner of a phase
Banner(out, text) == IF rank = 0 THEN Append(out, Line(text, << >>)) ELSE out

\* Diagnostic with the two messages under the wrong branches
DiagnosticSwapped ==
  << Line("A TypeError occured in pysu2.CDriver", << >>),
     IF with_MPI
       THEN Line("ERROR: no MPI but the wrapper has been built in parallel, add --parallel", << >>)
       ELSE Line("ERROR: MPI with a serial build of the wrapper, remove --parallel", << >>) >>

\* the two messages of the except TypeError branch
Diagnostic ==
  << Line("A TypeError occured in pysu2.CDriver", << >>),
     IF with_MPI
       THEN Line("ERROR: MPI with a serial build of the wrapper, remove --parallel", << >>)
       ELSE Line("ERROR: no MPI but the wrapper has been built in parallel, add --parallel", << >>) >>

Init ==
  /\ pc = "L89"
  /\ with_MPI \in BOOLEAN
  /\ rank \in IF with_MPI THEN Ranks ELSE {0}
  /\ SU2Driver = "unbound"
  /\ SU2Error = "unbound"
  /\ MarkerList = {}
  /\ allMarkerIDs = [n \in {} |-> 0]
  /\ MarkerID = None
  /\ nVertex_Marker = 0
  /\ nVertex_Marker_HALO = 0
  /\ nVertex_Marker_PHYS = 0
  /\ TimeIter = 0
  /\ nTimeIter = 0
  /\ stopCalc = FALSE
  /\ nPoint_Local = 0
  /\ nVar_Par = 0
  /\ Sol = << >>
  /\ iPoint = 0
  /\ iVar = 0
  /\ adaptData = [c \in (0 .. MaxVar) \X (0 .. MaxPoint) |-> 0]
  /\ stdout = << >>
  /\ calls = << >>
  /\ phaseLog = << >>
  /\ SolWrites = << >>
  /\ procPc = [p \in Procs |-> "L89"]
  /\ procTimeIter = [p \in Procs |-> 0]
  /\ procNTimeIter = [p \in Procs |-> 0]
  /\ barriersEntered = [p \in Procs |-> 0]
  /\ adjointStepped = [p \in Procs |-> FALSE]

\* ConstructDriver with the return of line 96 left out
ConstructDriverFallsThrough ==
  /\ pc = "L89"
  /\ \/ /\ SU2Driver' = "live"
        /\ phaseLog' = Event(phaseLog, "ConstructDriver")
        /\ UNCHANGED stdout
     \/ /\ stdout' = stdout \o Diagnostic
        /\ UNCHANGED << SU2Driver, phaseLog >>
  /\ pc' = "L102"
  /\ UNCHANGED << optVars, SU2Error, markerVars, iterVars, solVars, calls >>

(* ---- lines 88-96: construction of the direct driver ---- *)
ConstructDriver ==
  /\ pc = "L89"
  /\ \/ /\ SU2Driver' = "live"
        /\ phaseLog' = Event(phaseLog, "ConstructDriver")
        /\ pc' = "L102"
        /\ UNCHANGED stdout
     \/ /\ stdout' = stdout \o Diagnostic
        /\ pc' = "returned"
        /\ UNCHANGED << SU2Driver, phaseLog >>
  /\ UNCHANGED << optVars, SU2Error, markerVars, iterVars, solVars, calls >>

(* ---- lines 98-119: the boundary marker and its vertex counts ---- *)
GetAllBoundaryMarkersTag ==
  /\ pc = "L102"
  /\ \E l \in MarkerLists :
       /\ MarkerList' = l
       /\ calls' = Append(calls, Call("GetAllBoundaryMarkersTag", << >>, << >>))
  /\ pc' = "L105"
  /\ UNCHANGED << optVars, driverVars, allMarkerIDs, MarkerID, nVertex_Marker,
                  nVertex_Marker_HALO, nVertex_Marker_PHYS, iterVars, solVars,
                  stdout, phaseLog >>

GetAllBoundaryMarkers ==
  /\ pc = "L105"
  /\ \E m \in MarkerMaps :
       /\ allMarkerIDs' = m
       /\ calls' = Append(calls, Call("GetAllBoundaryMarkers", << >>, << >>))
  /\ pc' = "L108"
  /\ UNCHANGED << optVars, driverVars, MarkerList, MarkerID, nVertex_Marker,
                  nVertex_Marker_HALO, nVertex_Marker_PHYS, iterVars, solVars,
                  stdout, phaseLog >>

\* ResolveMarker with only the rank-local mapping consulted
ResolveMarkerLocalOnly ==
  /\ pc = "L108"
  /\ MarkerID' = IF MarkerName \in DOMAIN allMarkerIDs
                 THEN Some(allMarkerIDs[MarkerName])
                 ELSE None
  /\ nVertex_Marker' = 0
  /\ nVertex_Marker_HALO' = 0
  /\ nVertex_Marker_PHYS' = 0
  /\ pc' = IF MarkerID' /= None THEN "L117" ELSE "L122"
  /\ UNCHANGED << optVars, driverVars, MarkerList, allMarkerIDs, iterVars, solVars,
                  stdout, calls, phaseLog >>

\* lines 108-116: MarkerID is bound only when the name is in both collections
ResolveMarker ==
  /\ pc = "L108"
  /\ MarkerID' = IF MarkerName \in MarkerList /\ MarkerName \in DOMAIN allMarkerIDs
                 THEN Some(allMarkerIDs[MarkerName])
                 ELSE None
  /\ nVertex_Marker' = 0
  /\ nVertex_Marker_HALO' = 0
  /\ nVertex_Marker_PHYS' = 0
  /\ pc' = IF MarkerID' /= None THEN "L117" ELSE "L122"
  /\ UNCHANGED << optVars, driverVars, MarkerList, allMarkerIDs, iterVars, solVars,
                  stdout, calls, phaseLog >>

GetNumberVertices ==
  /\ pc = "L117"
  /\ \E n \in VertexCounts :
       /\ nVertex_Marker' = n
       /\ calls' = Append(calls, Call("GetNumberVertices", << MarkerID[1] >>, << n >>))
  /\ pc' = "L118"
  /\ UNCHANGED << optVars, driverVars, MarkerList, allMarkerIDs, MarkerID,
                  nVertex_Marker_HALO, nVertex_Marker_PHYS, iterVars, solVars,
                  stdout, phaseLog >>

\* lines 118-119: the halo count, and the physical count computed from it
GetNumberHaloVertices ==
  /\ pc = "L118"
  /\ \E h \in VertexCounts :
       /\ nVertex_Marker_HALO' = h
       /\ nVertex_Marker_PHYS' = nVertex_Marker - h
       /\ calls' = Append(calls, Call("GetNumberHaloVertices", << MarkerID[1] >>, << h >>))
  /\ pc' = "L122"
  /\ UNCHANGED << optVars, driverVars, MarkerList, allMarkerIDs, MarkerID,
                  nVertex_Marker, iterVars, solVars, stdout, phaseLog >>

(* ---- lines 121-138: the direct phase ---- *)
\* lines 122-123; the direct phase is entered here
DirectGetIter ==
  /\ pc = "L122"
  /\ \E t \in IterValues, n \in IterValues :
       /\ TimeIter' = t
       /\ nTimeIter' = n
       /\ calls' = << Call("GetExtIter", << >>, << t >>), Call("GetnExtIter", << >>, << n >>) >>
  /\ pc' = "L126"
  /\ UNCHANGED << optVars, driverVars, markerVars, stopCalc, solVars, stdout, phaseLog >>

\* lines 126-130
BeginFlowSolver ==
  /\ pc = "L126"
  /\ stdout' = Banner(stdout, "Begin Flow Solver")
  /\ calls' = Barrier(calls)
  /\ pc' = "L132"
  /\ UNCHANGED << optVars, driverVars, markerVars, iterVars, solVars, phaseLog >>

\* DirectStep with the loop condition written TimeIter <= nTimeIter
DirectStepInclusive ==
  /\ pc = "L132"
  /\ TimeIter <= nTimeIter
  /\ \E stop \in BOOLEAN :
       /\ stopCalc' = stop
       /\ calls' = Append(calls, Call("DirectIteration", << TimeIter >>, << stop >>))
       /\ IF stop
            THEN /\ pc' = "L141"
                 /\ UNCHANGED TimeIter
            ELSE /\ pc' = "L132"
                 /\ TimeIter' = TimeIter + 1
  /\ phaseLog' = Event(phaseLog, "DirectStep")
  /\ UNCHANGED << optVars, driverVars, markerVars, nTimeIter, solVars, stdout >>

\* DirectStep with the counter advanced before the break
DirectStepCountsStop ==
  /\ pc = "L132"
  /\ TimeIter < nTimeIter
  /\ \E stop \in BOOLEAN :
       /\ stopCalc' = stop
       /\ calls' = Append(calls, Call("DirectIteration", << TimeIter >>, << stop >>))
       /\ pc' = IF stop THEN "L141" ELSE "L132"
  /\ TimeIter' = TimeIter + 1
  /\ phaseLog' = Event(phaseLog, "DirectStep")
  /\ UNCHANGED << optVars, driverVars, markerVars, nTimeIter, solVars, stdout >>

\* lines 132-138: one pass through the loop body
DirectStep ==
  /\ pc = "L132"
  /\ TimeIter < nTimeIter
  /\ \E stop \in BOOLEAN :
       /\ stopCalc' = stop
       /\ calls' = Append(calls, Call("DirectIteration", << TimeIter >>, << stop >>))
       /\ IF stop
            THEN /\ pc' = "L141"
                 /\ UNCHANGED TimeIter
            ELSE /\ pc' = "L132"
                 /\ TimeIter' = TimeIter + 1
  /\ phaseLog' = Event(phaseLog, "DirectStep")
  /\ UNCHANGED << optVars, driverVars, markerVars, nTimeIter, solVars, stdout >>

\* DirectExit with the exhausted limit treated as an error that ends the run
DirectExitAborts ==
  /\ pc = "L132"
  /\ ~ (TimeIter < nTimeIter)
  /\ pc' = IF stopCalc THEN "L141" ELSE "returned"
  /\ UNCHANGED << optVars, driverVars, markerVars, iterVars, solVars, stdout, calls, phaseLog >>

\* line 132: the loop condition is false
DirectExit ==
  /\ pc = "L132"
  /\ ~ (TimeIter < nTimeIter)
  /\ pc' = "L141"
  /\ UNCHANGED << optVars, driverVars, markerVars, iterVars, solVars, stdout, calls, phaseLog >>

(* ---- lines 140-167: the adjoint phase ---- *)
\* lines 141-142; the adjoint phase is entered here
AdjointGetIter ==
  /\ pc = "L141"
  /\ \E t \in IterValues, n \in IterValues :
       /\ TimeIter' = t
       /\ nTimeIter' = n
       /\ calls' = << Call("GetExtIter", << >>, << t >>), Call("GetnExtIter", << >>, << n >>) >>
  /\ pc' = "L144"
  /\ UNCHANGED << optVars, driverVars, markerVars, stopCalc, solVars, stdout, phaseLog >>

\* lines 144-148
BeginAdjointSolver ==
  /\ pc = "L144"
  /\ stdout' = Banner(stdout, "Begin Adjoint Solver")
  /\ calls' = Barrier(calls)
  /\ pc' = "L150"
  /\ UNCHANGED << optVars, driverVars, markerVars, iterVars, solVars, phaseLog >>

\* a stage of the adjoint iteration that returns nothing the script keeps
AdjointStage(line, op, args, next) ==
  /\ pc = line
  /\ calls' = Append(calls, Call(op, args, << >>))
  /\ phaseLog' = Event(phaseLog, "AdjointStep")
  /\ pc' = next
  /\ UNCHANGED << optVars, driverVars, markerVars, iterVars, solVars, stdout >>

\* Preprocess with the loop condition written TimeIter <= nTimeIter
PreprocessInclusive ==
  /\ TimeIter <= nTimeIter
  /\ AdjointStage("L150", "Preprocess", << TimeIter >>, "L154")

\* lines 150-152: the loop condition holds, the iteration starts
Preprocess ==
  /\ TimeIter < nTimeIter
  /\ AdjointStage("L150", "Preprocess", << TimeIter >>, "L154")

\* line 150: the loop condition is false
AdjointExit ==
  /\ pc = "L150"
  /\ ~ (TimeIter < nTimeIter)
  /\ pc' = "L171"
  /\ UNCHANGED << optVars, driverVars, markerVars, iterVars, solVars, stdout, calls, phaseLog >>

Run == AdjointStage("L154", "Run", << >>, "L156")

\* Postprocess with the Update call left out of the iteration
PostprocessSkipsUpdate == AdjointStage("L156", "Postprocess", << >>, "L160")

Postprocess == AdjointStage("L156", "Postprocess", << >>, "L158")

Update == AdjointStage("L158", "Update", << >>, "L160")

\* Monitor with the break taken before the output
MonitorBreaks ==
  /\ pc = "L160"
  /\ \E stop \in BOOLEAN :
       /\ stopCalc' = stop
       /\ calls' = Append(calls, Call("Monitor", << TimeIter >>, << stop >>))
       /\ pc' = IF stop THEN "L171" ELSE "L163"
  /\ phaseLog' = Event(phaseLog, "AdjointStep")
  /\ UNCHANGED << optVars, driverVars, markerVars, TimeIter, nTimeIter, solVars, stdout >>

\* line 160
Monitor ==
  /\ pc = "L160"
  /\ \E stop \in BOOLEAN :
       /\ stopCalc' = stop
       /\ calls' = Append(calls, Call("Monitor", << TimeIter >>, << stop >>))
  /\ phaseLog' = Event(phaseLog, "AdjointStep")
  /\ pc' = "L163"
  /\ UNCHANGED << optVars, driverVars, markerVars, TimeIter, nTimeIter, solVars, stdout >>

\* lines 163-167: the output, then the break or the increment
Output ==
  /\ pc = "L163"
  /\ calls' = Append(calls, Call("Output", << TimeIter >>, << >>))
  /\ phaseLog' = Event(phaseLog, "AdjointStep")
  /\ IF stopCalc
       THEN /\ pc' = "L171"
            /\ UNCHANGED TimeIter
       ELSE /\ pc' = "L150"
            /\ TimeIter' = TimeIter + 1
  /\ UNCHANGED << optVars, driverVars, markerVars, nTimeIter, stopCalc, solVars, stdout >>

(* ---- lines 169-200: error estimation ---- *)
\* lines 170-178; the error estimation phase is entered here
ConstructError ==
  /\ pc = "L171"
  /\ \/ /\ SU2Error' = "live"
        /\ phaseLog' = Event(phaseLog, "ConstructError")
        /\ calls' = << >>
        /\ pc' = "L180"
        /\ UNCHANGED stdout
     \/ /\ stdout' = stdout \o Diagnostic
        /\ pc' = "returned"
        /\ UNCHANGED << SU2Error, phaseLog, calls >>
  /\ UNCHANGED << optVars, SU2Driver, markerVars, iterVars, solVars >>

\* BeginErrorEstimation with the ComputeMetric call left out
BeginErrorEstimationNoMetric ==
  /\ pc = "L180"
  /\ stdout' = Banner(stdout, "Begin Error Estimation")
  /\ calls' = Barrier(calls)
  /\ pc' = "L190"
  /\ UNCHANGED << optVars, driverVars, markerVars, iterVars, solVars, phaseLog >>

\* lines 180-184
BeginErrorEstimation ==
  /\ pc = "L180"
  /\ stdout' = Banner(stdout, "Begin Error Estimation")
  /\ calls' = Barrier(calls)
  /\ pc' = "L187"
  /\ UNCHANGED << optVars, driverVars, markerVars, iterVars, solVars, phaseLog >>

\* line 187
ComputeMetric ==
  /\ pc = "L187"
  /\ calls' = Append(calls, Call("ComputeMetric", << >>, << >>))
  /\ phaseLog' = Event(phaseLog, "ErrorEstimation")
  /\ pc' = "L190"
  /\ UNCHANGED << optVars, driverVars, markerVars, iterVars, solVars, stdout >>

\* line 190: the driver packs the table the script reads afterwards
SetAdaptationData ==
  /\ pc = "L190"
  /\ adaptData' \in AdaptTables
  /\ calls' = Append(calls, Call("SetAdaptationData", << >>, << >>))
  /\ phaseLog' = Event(phaseLog, "ErrorEstimation")
  /\ pc' = "L193"
  /\ UNCHANGED << optVars, driverVars, markerVars, iterVars, nPoint_Local, nVar_Par, Sol,
                  iPoint, iVar, SolWrites, stdout >>

\* line 193
GetnPointDomain ==
  /\ pc = "L193"
  /\ \E n \in PointCounts :
       /\ nPoint_Local' = n
       /\ calls' = Append(calls, Call("GetnPointDomain", << 0, 0, 0 >>, << n >>))
  /\ phaseLog' = Event(phaseLog, "ErrorEstimation")
  /\ pc' = "L194"
  /\ UNCHANGED << optVars, driverVars, markerVars, iterVars, nVar_Par, Sol, iPoint, iVar,
                  adaptData, SolWrites, stdout >>

\* np.zeros with the two extents exchanged
ZerosTransposed(rows, cols) == [p \in 0 .. (cols - 1) |-> [v \in 0 .. (rows - 1) |-> 0]]

\* np.zeros((rows, cols))
Zeros(rows, cols) == [p \in 0 .. (rows - 1) |-> [v \in 0 .. (cols - 1) |-> 0]]

\* lines 194-196: the variable count, and the zero-filled dataset
GetnVarPar ==
  /\ pc = "L194"
  /\ \E n \in VarCounts :
       /\ nVar_Par' = n
       /\ Sol' = Zeros(nPoint_Local, n)
       /\ SolWrites' = Zeros(nPoint_Local, n)
       /\ calls' = Append(calls, Call("GetnVarPar", << >>, << n >>))
  /\ iPoint' = 0
  /\ phaseLog' = Event(phaseLog, "ErrorEstimation")
  /\ pc' = "L197"
  /\ UNCHANGED << optVars, driverVars, markerVars, iterVars, nPoint_Local, iVar,
                  adaptData, stdout >>

\* line 197: range(0, nPoint_Local) yields the next point
NextPoint ==
  /\ pc = "L197"
  /\ iPoint < nPoint_Local
  /\ iVar' = 0
  /\ pc' = "L198"
  /\ UNCHANGED << optVars, driverVars, markerVars, iterVars, nPoint_Local, nVar_Par, Sol,
                  iPoint, adaptData, SolWrites, stdout, calls, phaseLog >>

\* FetchCell with the arguments of GetAdaptationData exchanged
FetchCellTransposed ==
  /\ pc = "L198"
  /\ iVar < nVar_Par
  /\ Sol' = [Sol EXCEPT ![iPoint][iVar] = adaptData[<< iPoint, iVar >>]]
  /\ SolWrites' = [SolWrites EXCEPT ![iPoint][iVar] = @ + 1]
  /\ calls' = Append(calls, Call("GetAdaptationData", << iPoint, iVar >>,
                                 << adaptData[<< iPoint, iVar >>] >>))
  /\ phaseLog' = Event(phaseLog, "ErrorEstimation")
  /\ iVar' = iVar + 1
  /\ UNCHANGED << pc, optVars, driverVars, markerVars, iterVars, nPoint_Local, nVar_Par,
                  iPoint, adaptData, stdout >>

\* lines 198-199: range(0, nVar_Par) yields the next variable, one cell is fetched
FetchCell ==
  /\ pc = "L198"
  /\ iVar < nVar_Par
  /\ Sol' = [Sol EXCEPT ![iPoint][iVar] = adaptData[<< iVar, iPoint >>]]
  /\ SolWrites' = [SolWrites EXCEPT ![iPoint][iVar] = @ + 1]
  /\ calls' = Append(calls, Call("GetAdaptationData", << iVar, iPoint >>,
                                 << adaptData[<< iVar, iPoint >>] >>))
  /\ phaseLog' = Event(phaseLog, "ErrorEstimation")
  /\ iVar' = iVar + 1
  /\ UNCHANGED << pc, optVars, driverVars, markerVars, iterVars, nPoint_Local, nVar_Par,
                  iPoint, adaptData, stdout >>

\* line 200: the inner range is exhausted, the row is printed
PrintRow ==
  /\ pc = "L198"
  /\ ~ (iVar < nVar_Par)
  /\ stdout' = Append(stdout, Line("Sol row", Sol[iPoint]))
  /\ iPoint' = iPoint + 1
  /\ pc' = "L197"
  /\ UNCHANGED << optVars, driverVars, markerVars, iterVars, nPoint_Local, nVar_Par, Sol,
                  iVar, adaptData, SolWrites, calls, phaseLog >>

\* line 197: the outer range is exhausted
ExtractionDone ==
  /\ pc = "L197"
  /\ ~ (iPoint < nPoint_Local)
  /\ pc' = "L203"
  /\ UNCHANGED << optVars, driverVars, markerVars, iterVars, solVars, stdout, calls, phaseLog >>

(* ---- lines 202-206: release of the direct driver ---- *)
\* Postprocessing called before the data is retrieved
PostprocessingBeforeExtraction ==
  /\ pc = "L203"
  /\ SU2Driver' = "finalized"
  /\ calls' = Append(calls, Call("Postprocessing", << >>, << >>))
  /\ phaseLog' = Event(phaseLog, "Release")
  /\ pc' = "L193"
  /\ UNCHANGED << optVars, SU2Error, markerVars, iterVars, solVars, stdout >>

\* Postprocessing called a second time
PostprocessingTwice ==
  /\ pc = "L203"
  /\ SU2Driver' = "finalized"
  /\ calls' = Append(calls, Call("Postprocessing", << >>, << >>))
  /\ phaseLog' = Event(phaseLog, "Release")
  /\ pc' = IF SU2Driver = "live" THEN "L203" ELSE "L205"
  /\ UNCHANGED << optVars, SU2Error, markerVars, iterVars, solVars, stdout >>

\* line 203
Postprocessing ==
  /\ pc = "L203"
  /\ SU2Driver' = "finalized"
  /\ calls' = Append(calls, Call("Postprocessing", << >>, << >>))
  /\ phaseLog' = Event(phaseLog, "Release")
  /\ pc' = "L205"
  /\ UNCHANGED << optVars, SU2Error, markerVars, iterVars, solVars, stdout >>

\* lines 205-206: SU2Driver is bound, so it is deleted; main returns
DeleteDriver ==
  /\ pc = "L205"
  /\ SU2Driver' = "deleted"
  /\ pc' = "returned"
  /\ UNCHANGED << optVars, SU2Error, markerVars, iterVars, solVars, stdout, calls, phaseLog >>

Next ==
  \/ ConstructDriver
  \/ GetAllBoundaryMarkersTag
  \/ GetAllBoundaryMarkers
  \/ ResolveMarker
  \/ GetNumberVertices
  \/ GetNumberHaloVertices
  \/ DirectGetIter
  \/ BeginFlowSolver
  \/ DirectStep
  \/ DirectExit
  \/ AdjointGetIter
  \/ BeginAdjointSolver
  \/ Preprocess
  \/ AdjointExit
  \/ Run
  \/ Postprocess
  \/ Update
  \/ Monitor
  \/ Output
  \/ ConstructError
  \/ BeginErrorEstimation
  \/ ComputeMetric
  \/ SetAdaptationData
  \/ GetnPointDomain
  \/ GetnVarPar
  \/ NextPoint
  \/ FetchCell
  \/ PrintRow
  \/ ExtractionDone
  \/ Postprocessing
  \/ DeleteDriver

Spec == Init /\ [][Next]_vars

\* every call returns and the interpreter keeps running: main takes its next
\* step as long as it has one
FairSpec == Spec /\ WF_vars(Next)

(***************************************************************************)
(* The run as a group of processes.  Every process executes main; the      *)
(* steps are those of main that matter between processes: constructions,   *)
(* loop iterations and barriers.  comm.Barrier() returns in a process once *)
(* every process of the group has made as many Barrier calls as it has.    *)
(***************************************************************************)
\* lines 88-96 in process p
ParConstructDriver(p) ==
  /\ procPc[p] = "L89"
  /\ \/ procPc' = [procPc EXCEPT ![p] = "L122"]
     \/ procPc' = [procPc EXCEPT ![p] = "L96"]
  /\ UNCHANGED << with_MPI, mainVars, procTimeIter, procNTimeIter, barriersEntered,
                  adjointStepped >>

\* lines 98-128 and 140-146 in process p: the driver's iteration counts are read
ParGetIter(p) ==
  /\ procPc[p] \in {"L122", "L141"}
  /\ \E t \in ParIterValues, n \in ParIterValues :
       /\ procTimeIter' = [procTimeIter EXCEPT ![p] = t]
       /\ procNTimeIter' = [procNTimeIter EXCEPT ![p] = n]
  /\ procPc' = [procPc EXCEPT ![p] = IF procPc[p] = "L122" THEN "L129" ELSE "L147"]
  /\ UNCHANGED << with_MPI, mainVars, barriersEntered, adjointStepped >>

\* the line after each of the three "if options.with_MPI == True: comm.Barrier()"
AfterBarrier(line) ==
  CASE line \in {"L129", "L130"} -> "L132"
    [] line \in {"L147", "L148"} -> "L150"
    [] line \in {"L183", "L184"} -> "L187"

\* ParBarrierEnter with lines 147-148 left out
ParBarrierEnterNoSecond(p) ==
  /\ procPc[p] \in {"L129", "L147", "L183"}
  /\ IF with_MPI /\ procPc[p] /= "L147"
       THEN /\ barriersEntered' = [barriersEntered EXCEPT ![p] = @ + 1]
            /\ procPc' = [procPc EXCEPT ![p] = IF @ = "L129" THEN "L130" ELSE "L184"]
       ELSE /\ procPc' = [procPc EXCEPT ![p] = AfterBarrier(@)]
            /\ UNCHANGED barriersEntered
  /\ UNCHANGED << with_MPI, mainVars, procTimeIter, procNTimeIter, adjointStepped >>

\* ParBarrierEnter with lines 183-184 left out
ParBarrierEnterNoThird(p) ==
  /\ procPc[p] \in {"L129", "L147", "L183"}
  /\ IF with_MPI /\ procPc[p] /= "L183"
       THEN /\ barriersEntered' = [barriersEntered EXCEPT ![p] = @ + 1]
            /\ procPc' = [procPc EXCEPT ![p] = IF @ = "L129" THEN "L130" ELSE "L148"]
       ELSE /\ procPc' = [procPc EXCEPT ![p] = AfterBarrier(@)]
            /\ UNCHANGED barriersEntered
  /\ UNCHANGED << with_MPI, mainVars, procTimeIter, procNTimeIter, adjointStepped >>

\* lines 129-130, 147-148, 183-184 in process p: the barrier is called in a
\* parallel run and passed over in a serial one
ParBarrierEnter(p) ==
  /\ procPc[p] \in {"L129", "L147", "L183"}
  /\ IF with_MPI
       THEN /\ barriersEntered' = [barriersEntered EXCEPT ![p] = @ + 1]
            /\ procPc' = [procPc EXCEPT ![p] =
                            CASE @ = "L129" -> "L130" [] @ = "L147" -> "L148"
                              [] @ = "L183" -> "L184"]
       ELSE /\ procPc' = [procPc EXCEPT ![p] = AfterBarrier(@)]
            /\ UNCHANGED barriersEntered
  /\ UNCHANGED << with_MPI, mainVars, procTimeIter, procNTimeIter, adjointStepped >>

\* lines 130, 148, 184 in process p: comm.Barrier() returns
ParBarrierLeave(p) ==
  /\ procPc[p] \in {"L130", "L148", "L184"}
  /\ \A q \in Procs : barriersEntered[q] >= barriersEntered[p]
  /\ procPc' = [procPc EXCEPT ![p] = AfterBarrier(@)]
  /\ UNCHANGED << with_MPI, mainVars, procTimeIter, procNTimeIter, barriersEntered,
                  adjointStepped >>

\* lines 132-138 and 150-167 in process p: one iteration of either loop
ParIteration(p) ==
  /\ procPc[p] \in {"L132", "L150"}
  /\ procTimeIter[p] < procNTimeIter[p]
  /\ \E stop \in BOOLEAN :
       IF stop
         THEN /\ procPc' = [procPc EXCEPT ![p] = IF @ = "L132" THEN "L141" ELSE "L171"]
              /\ UNCHANGED procTimeIter
         ELSE /\ procTimeIter' = [procTimeIter EXCEPT ![p] = @ + 1]
              /\ UNCHANGED procPc
  /\ adjointStepped' = [adjointStepped EXCEPT ![p] = @ \/ procPc[p] = "L150"]
  /\ UNCHANGED << with_MPI, mainVars, procNTimeIter, barriersEntered >>

\* lines 132 and 150 in process p: the loop condition is false
ParLoopExit(p) ==
  /\ procPc[p] \in {"L132", "L150"}
  /\ ~ (procTimeIter[p] < procNTimeIter[p])
  /\ procPc' = [procPc EXCEPT ![p] = IF @ = "L132" THEN "L141" ELSE "L171"]
  /\ UNCHANGED << with_MPI, mainVars, procTimeIter, procNTimeIter, barriersEntered,
                  adjointStepped >>

\* lines 170-182 in process p
ParConstructError(p) ==
  /\ procPc[p] = "L171"
  /\ \/ procPc' = [procPc EXCEPT ![p] = "L183"]
     \/ procPc' = [procPc EXCEPT ![p] = "L178"]
  /\ UNCHANGED << with_MPI, mainVars, procTimeIter, procNTimeIter, barriersEntered,
                  adjointStepped >>

\* lines 186-200 in process p: ComputeMetric, SetAdaptationData, extraction
ParErrorEstimation(p) ==
  /\ procPc[p] = "L187"
  /\ procPc' = [procPc EXCEPT ![p] = "L203"]
  /\ UNCHANGED << with_MPI, mainVars, procTimeIter, procNTimeIter, barriersEntered,
                  adjointStepped >>

\* lines 202-206 in process p
ParRelease(p) ==
  /\ procPc[p] = "L203"
  /\ procPc' = [procPc EXCEPT ![p] = "L206"]
  /\ UNCHANGED << with_MPI, mainVars, procTimeIter, procNTimeIter, barriersEntered,
                  adjointStepped >>

NextPar ==
  \E p \in Procs :
    \/ ParConstructDriver(p)
    \/ ParGetIter(p)
    \/ ParBarrierEnter(p)
    \/ ParBarrierLeave(p)
    \/ ParIteration(p)
    \/ ParLoopExit(p)
    \/ ParConstructError(p)
    \/ ParErrorEstimation(p)
    \/ ParRelease(p)

InitPar == Init /\ rank = 0

SpecPar == InitPar /\ [][NextPar]_vars

(***************************************************************************)
(* Properties                                                              *)
(***************************************************************************)
\* the calls of the current phase to one operation, in order
CallsOf(op) == SelectSeq(calls, LAMBDA c : c.op = op)
InDirectPhase == pc \in {"L126", "L132", "L141"}
InAdjointPhase == pc \in {"L144", "L150", "L154", "L156", "L158", "L160", "L163", "L171"}
\* in both phases the phase's history starts with GetExtIter and GetnExtIter
EntryIter == calls[1].ret[1]
EntryTarget == calls[2].ret[1]
Budget == IF EntryTarget > EntryIter THEN EntryTarget - EntryIter ELSE 0
\* steps is the number of steps the loop made, signals the stop signals returned
LoopBounded(steps, signals) ==
  /\ steps <= Budget
  /\ \A k \in 1 .. Len(signals) : signals[k].ret = << TRUE >> => steps = k

\* C1: the direct loop and the adjoint loop each make at most
\* max(0, targetIter - currentIter) steps, the values being those read at the
\* phase's entry, and a loop whose step k returns the stop signal makes exactly
\* k steps.
C1_LoopsBounded ==
  /\ InDirectPhase =>
       LoopBounded(Len(CallsOf("DirectIteration")), CallsOf("DirectIteration"))
  /\ InAdjointPhase =>
       LoopBounded(Len(CallsOf("Preprocess")), CallsOf("Monitor"))

\* the direct loop had a budget of two steps and was left after the first
C1_Witness ==
  /\ pc = "L141"
  /\ Budget = 2
  /\ Len(CallsOf("DirectIteration")) = 1
  /\ calls[Len(calls)].ret = << TRUE >>

\* C2: in the adjoint phase every Monitor(i) call is followed at once by
\* Output(i) with the same i; the only state in which a Monitor call is the
\* last call is inside the loop, before the output.
C2_OutputAfterMonitor ==
  InAdjointPhase =>
    \A j \in 1 .. Len(calls) :
      calls[j].op = "Monitor" =>
        IF j = Len(calls)
          THEN pc = "L163"
          ELSE calls[j + 1].op = "Output" /\ calls[j + 1].args = calls[j].args

\* the adjoint loop was left on a stop signal, after Output of that iteration
C2_Witness ==
  /\ pc = "L171"
  /\ Len(calls) >= 2
  /\ calls[Len(calls)].op = "Output"
  /\ calls[Len(calls) - 1].op = "Monitor"
  /\ calls[Len(calls) - 1].ret = << TRUE >>
  /\ calls[Len(calls)].args = calls[Len(calls) - 1].args

StageOrder == << "Preprocess", "Run", "Postprocess", "Update", "Monitor", "Output" >>
StageCalls == SelectSeq(calls, LAMBDA c : \E k \in 1 .. 6 : c.op = StageOrder[k])
\* the stage a call at position j of StageCalls has to be, and the position of
\* the Preprocess call that started its iteration
StageAt(j) == ((j - 1) % 6) + 1
StartOf(j) == j - ((j - 1) % 6)

\* C3: the stage calls of the adjoint phase are repetitions of Preprocess(i),
\* Run(), Postprocess(), Update(), Monitor(i), Output(i), with one i per
\* repetition, and outside an iteration the last repetition is complete.
C3_AdjointPipeline ==
  InAdjointPhase =>
    /\ \A j \in 1 .. Len(StageCalls) :
         /\ StageCalls[j].op = StageOrder[StageAt(j)]
         /\ StageCalls[j].args =
              IF StageAt(j) \in {1, 5, 6} THEN StageCalls[StartOf(j)].args ELSE << >>
         /\ Len(StageCalls[StartOf(j)].args) = 1
    /\ pc \in {"L144", "L150", "L171"} => Len(StageCalls) % 6 = 0
    /\ pc = "L154" => StageAt(Len(StageCalls)) = 1
    /\ pc = "L156" => StageAt(Len(StageCalls)) = 2
    /\ pc = "L158" => StageAt(Len(StageCalls)) = 3
    /\ pc = "L160" => StageAt(Len(StageCalls)) = 4
    /\ pc = "L163" => StageAt(Len(StageCalls)) = 5

\* two complete adjoint iterations were made
C3_Witness ==
  /\ pc = "L171"
  /\ Len(StageCalls) = 12
  /\ StageCalls[7].args /= StageCalls[1].args

\* C4: ComputeMetric is called before SetAdaptationData, and GetAdaptationData
\* only after both.
C4_MetricBeforeData ==
  \A j \in 1 .. Len(calls) :
    /\ calls[j].op = "SetAdaptationData" =>
         \E i \in 1 .. (j - 1) : calls[i].op = "ComputeMetric"
    /\ calls[j].op = "GetAdaptationData" =>
         \E i \in 1 .. (j - 1) :
           /\ calls[i].op = "SetAdaptationData"
           /\ \E h \in 1 .. (i - 1) : calls[h].op = "ComputeMetric"

\* a value was fetched in a run whose last loop was left on a stop signal
C4_Witness ==
  /\ stopCalc
  /\ Len(CallsOf("GetAdaptationData")) > 0

PhaseOrder == << "ConstructDriver", "DirectStep", "AdjointStep", "ConstructError",
                 "ErrorEstimation", "Release" >>
PhaseRank(e) == CHOOSE k \in 1 .. 6 : PhaseOrder[k] = e

\* C5: the orchestration events occur in the order direct driver constructed,
\* direct steps, adjoint steps, error-estimation driver constructed,
\* error-estimation calls, release; nothing happens before the direct driver is
\* constructed and no error-estimation call or release without the
\* error-estimation driver.
C5_FixedOrder ==
  /\ \A i, j \in 1 .. Len(phaseLog) :
       i < j => PhaseRank(phaseLog[i]) < PhaseRank(phaseLog[j])
  /\ Len(phaseLog) > 0 => phaseLog[1] = "ConstructDriver"
  /\ \A j \in 1 .. Len(phaseLog) :
       phaseLog[j] \in {"ErrorEstimation", "Release"} =>
         \E i \in 1 .. (j - 1) : phaseLog[i] = "ConstructError"
  /\ \A j \in 1 .. Len(phaseLog) :
       phaseLog[j] = "Release" => j > 1 /\ phaseLog[j - 1] = "ErrorEstimation"

\* a run with direct steps, adjoint steps and error estimation has returned
C5_Witness ==
  /\ pc = "returned"
  /\ phaseLog = PhaseOrder

Points == 0 .. (nPoint_Local - 1)
Variables == 0 .. (nVar_Par - 1)
\* the dataset is allocated from line 196 on; the extraction has finished when
\* the outer loop has been left
DatasetAllocated ==
  pc \in {"L197", "L198", "L203", "L205"} \/ (pc = "returned" /\ SU2Driver = "deleted")
ExtractionFinished ==
  pc \in {"L203", "L205"} \/ (pc = "returned" /\ SU2Driver = "deleted")
\* the number of GetAdaptationData calls made for variable v at point p
Fetches(v, p) ==
  Len(SelectSeq(calls, LAMBDA c : c.op = "GetAdaptationData" /\ c.args = << v, p >>))

\* C6: the dataset has nPoint_Local rows of nVar_Par columns; no cell is
\* assigned or fetched twice, and when the extraction has finished every cell
\* has been assigned once, with nPoint_Local * nVar_Par fetches in all.
C6_ShapeAndCoverage ==
  DatasetAllocated =>
    /\ DOMAIN Sol = Points
    /\ \A p \in Points : DOMAIN Sol[p] = Variables
    /\ \A p \in Points : \A v \in Variables :
         SolWrites[p][v] <= 1 /\ Fetches(v, p) = SolWrites[p][v]
    /\ ExtractionFinished =>
         /\ \A p \in Points : \A v \in Variables : SolWrites[p][v] = 1
         /\ Len(CallsOf("GetAdaptationData")) = nPoint_Local * nVar_Par

\* the extraction of three points with two variables has finished
C6_Witness ==
  /\ pc = "L203"
  /\ nPoint_Local = 3
  /\ nVar_Par = 2
  /\ Len(CallsOf("GetAdaptationData")) = 6

\* C7: after the extraction, cell [p, v] of the dataset is the driver's
\* adaptation value for variable v at point p.
C7_NoTransposition ==
  ExtractionFinished =>
    \A p \in Points : \A v \in Variables : Sol[p][v] = adaptData[<< v, p >>]

\* three points, two variables, driver values [[1,2],[3,4],[5,6]]
C7_Witness ==
  /\ pc = "L203"
  /\ nPoint_Local = 3
  /\ nVar_Par = 2
  /\ \A p \in 0 .. 2 : \A v \in 0 .. 1 : adaptData[<< v, p >>] = 2 * p + v + 1
  /\ Sol = [p \in 0 .. 2 |-> [v \in 0 .. 1 |-> 2 * p + v + 1]]

\* the marker has been looked up (lines 108-116 have run)
MarkerLookedUp == SU2Driver /= "unbound" /\ pc \notin {"L102", "L105", "L108"}
MarkerPresent == MarkerName \in MarkerList /\ MarkerName \in DOMAIN allMarkerIDs
\* both vertex counts of a resolved marker have been read (line 119 has run)
CountsRead == MarkerLookedUp /\ MarkerID /= None /\ pc \notin {"L117", "L118"}

\* C8: for a resolved marker total == physical + halo and physical >= 0,
\* whatever counts the driver returns.
C8_CountsConsistent ==
  CountsRead =>
    /\ nVertex_Marker = nVertex_Marker_PHYS + nVertex_Marker_HALO
    /\ nVertex_Marker_PHYS >= 0

\* C9: a marker missing from the tag list or from the rank-local mapping is
\* absent with all three counts zero, no vertex count is asked for, nothing is
\* printed, and the run goes on to the direct phase instead of ending.
C9_AbsentMarker ==
  (MarkerLookedUp /\ ~ MarkerPresent) =>
    /\ MarkerID = None
    /\ nVertex_Marker = 0 /\ nVertex_Marker_HALO = 0 /\ nVertex_Marker_PHYS = 0
    /\ pc \notin {"L117", "L118"}
    /\ pc = "L122" =>
         /\ Len(calls) = 2
         /\ calls[1].op = "GetAllBoundaryMarkersTag"
         /\ calls[2].op = "GetAllBoundaryMarkers"
         /\ stdout = << >>
    /\ pc = "returned" =>
         (Len(calls) = 0 \/ calls[1].op /= "GetAllBoundaryMarkersTag")

\* the name is in the tag list but not in the rank-local mapping, and the
\* first direct step has been made
C9_Witness ==
  /\ MarkerLookedUp
  /\ MarkerName \in MarkerList
  /\ MarkerName \notin DOMAIN allMarkerIDs
  /\ InDirectPhase
  /\ Len(CallsOf("DirectIteration")) = 1

\* C10: once the driver has reported more halo vertices than vertices for a
\* resolved marker, the run goes no further than line 119, where the physical
\* count is computed: it ends there, and no direct, adjoint or
\* error-estimation step is made.
C10_NegativeCountFatal ==
  (CountsRead /\ nVertex_Marker_HALO > nVertex_Marker) =>
    /\ pc \in {"L122", "returned"}
    /\ phaseLog = << "ConstructDriver" >>

TypeErrorLine == "A TypeError occured in pysu2.CDriver"
ErrorEstimationOps == {"ComputeMetric", "SetAdaptationData", "GetnVarPar", "GetAdaptationData"}

\* C11: while the direct driver is not constructed no driver operation is
\* made, and the run is either at the construction or has returned after the
\* diagnostic; while the error-estimation driver is not constructed no
\* operation of it is made, and a run that returned without it printed the
\* diagnostic last.
C11_FailedConstructionAborts ==
  /\ SU2Driver = "unbound" =>
       /\ calls = << >>
       /\ phaseLog = << >>
       /\ \/ pc = "L89" /\ stdout = << >>
          \/ pc = "returned" /\ Len(stdout) = 2 /\ stdout[1].text = TypeErrorLine
  /\ (SU2Driver /= "unbound" /\ SU2Error = "unbound") =>
       /\ SU2Driver = "live"
       /\ \A j \in 1 .. Len(calls) : calls[j].op \notin ErrorEstimationOps
       /\ \A j \in 1 .. Len(phaseLog) : phaseLog[j] \notin {"ErrorEstimation", "Release"}
       /\ pc \notin {"L180", "L187", "L190", "L193", "L194", "L197", "L198", "L203", "L205"}
       /\ pc = "returned" =>
            Len(stdout) >= 2 /\ stdout[Len(stdout) - 1].text = TypeErrorLine

\* the error-estimation driver could not be constructed after direct and
\* adjoint steps, and the run has returned
C11_Witness ==
  /\ pc = "returned"
  /\ SU2Driver = "live"
  /\ SU2Error = "unbound"
  /\ phaseLog = << "ConstructDriver", "DirectStep", "AdjointStep" >>

SerialBuildMsg == "ERROR: MPI with a serial build of the wrapper, remove --parallel"
ParallelBuildMsg == "ERROR: no MPI but the wrapper has been built in parallel, add --parallel"
ErrorLines == SelectSeq(stdout, LAMBDA l : l.text \in {SerialBuildMsg, ParallelBuildMsg})
ConstructionFailed == pc = "returned" /\ SU2Error = "unbound"

\* C12: a run that ended on a failed construction printed exactly one of the
\* two messages, as its last line: the serial-build message when --parallel
\* was given, the parallel-build message when it was not; no other run prints
\* either message.
C12_DiagnosticNamesDirection ==
  IF ConstructionFailed
    THEN /\ Len(ErrorLines) = 1
         /\ ErrorLines[1].text = IF with_MPI THEN SerialBuildMsg ELSE ParallelBuildMsg
         /\ stdout[Len(stdout)] = ErrorLines[1]
    ELSE ErrorLines = << >>

\* the error-estimation driver could not be constructed in a parallel run
C12_Witness ==
  /\ ConstructionFailed
  /\ SU2Driver = "live"
  /\ with_MPI
  /\ Len(ErrorLines) = 1

\* C15: a phase entered with a target of 0 makes no step call: no
\* DirectIteration in the direct phase, no stage call in the adjoint phase.
C15_ZeroTargetNoStep ==
  /\ (InDirectPhase /\ EntryTarget = 0) => CallsOf("DirectIteration") = << >>
  /\ (InAdjointPhase /\ EntryTarget = 0) => StageCalls = << >>

\* the adjoint loop has been left with target 0 and a current iteration of 2
C15_Witness ==
  /\ pc = "L171"
  /\ EntryTarget = 0
  /\ EntryIter = 2
  /\ Len(calls) <= 3

\* C16: when the first DirectIteration call returns the stop signal it is the
\* only one, it was made with the entry value of the counter, the counter
\* still has that value, and the loop has been left.
C16_StopOnFirstStep ==
  (InDirectPhase /\ Len(CallsOf("DirectIteration")) >= 1
     /\ CallsOf("DirectIteration")[1].ret = << TRUE >>) =>
    /\ Len(CallsOf("DirectIteration")) = 1
    /\ CallsOf("DirectIteration")[1].args = << EntryIter >>
    /\ TimeIter = EntryIter
    /\ pc = "L141"

\* entered at iteration 1 of 2, the direct loop stopped on its first step
C16_Witness ==
  /\ pc = "L141"
  /\ EntryIter = 1
  /\ EntryTarget = 2
  /\ stopCalc
  /\ TimeIter = 1
  /\ Len(CallsOf("DirectIteration")) = 1

\* C17: Postprocessing is called at most once, only with both drivers
\* constructed, and never followed by another driver call; the run that has
\* got past line 203 has called it, after every GetAdaptationData call.
C17_ReleasedOnceAtTheEnd ==
  /\ Len(CallsOf("Postprocessing")) <= 1
  /\ \A j \in 1 .. Len(calls) :
       calls[j].op = "Postprocessing" =>
         j = Len(calls) /\ SU2Error = "live" /\ pc \in {"L205", "returned"}
  /\ (SU2Driver \in {"finalized", "deleted"}) <=> (Len(CallsOf("Postprocessing")) = 1)
  /\ (SU2Error = "live" /\ pc \in {"L205", "returned"}) =>
       /\ Len(CallsOf("Postprocessing")) = 1
       /\ Len(CallsOf("GetAdaptationData")) = nPoint_Local * nVar_Par

\* a run that fetched six values has released the direct driver and returned
C17_Witness ==
  /\ pc = "returned"
  /\ SU2Driver = "deleted"
  /\ Len(CallsOf("GetAdaptationData")) = 6
  /\ calls[Len(calls)].op = "Postprocessing"

\* C19: whenever the direct driver has been released (Postprocessing called,
\* handle deleted) the error-estimation driver is no longer live.
C19_ErrorDriverReleasedFirst ==
  SU2Driver = "deleted" => SU2Error /= "live"

\* the run is over: the direct driver is released, or a construction failed
\* and its diagnostic was printed
Released == pc = "returned" /\ SU2Driver = "deleted" /\ SU2Error = "live"
AbortedOnConstruction == ConstructionFailed /\ Len(ErrorLines) = 1

\* C14: with every call returning, every run ends, and it ends with the
\* direct driver released unless a construction failed: no loop that ends on
\* its limit or on a stop signal keeps the run from the phases that follow.
C14_ReachesRelease == <>(Released \/ AbortedOnConstruction)

\* a run whose adjoint loop made steps and ended on its limit has released
\* the direct driver
C14_Witness ==
  /\ Released
  /\ ~ stopCalc
  /\ TimeIter = nTimeIter
  /\ phaseLog = PhaseOrder

(***************************************************************************)
(* The run as a group of processes                                         *)
(***************************************************************************)
\* where a process is once its direct loop is over
PastDirectLoop ==
  {"L141", "L147", "L148", "L150", "L171", "L178", "L183", "L184", "L187", "L203", "L206"}
\* where a process is once its adjoint loop is over
PastAdjointLoop == {"L171", "L178", "L183", "L184", "L187", "L203", "L206"}
\* where a process is once its error-estimation driver is constructed
ErrorConstructed == {"L183", "L184", "L187", "L203", "L206"}
\* where a process is once it has called ComputeMetric
MetricComputed == {"L203", "L206"}
\* where a process is while it is inside comm.Barrier()
InBarrier == {"L130", "L148", "L184"}
\* where a process is once main has returned in it
ParReturned == {"L96", "L178", "L206"}

\* the number of "if options.with_MPI == True" blocks above a line of main
BlocksAbove(line) ==
  CASE line \in {"L89", "L96", "L122", "L129"} -> 0
    [] line \in {"L130", "L132", "L141", "L147"} -> 1
    [] line \in {"L148", "L150", "L171", "L178", "L183"} -> 2
    [] line \in {"L184", "L187", "L203", "L206"} -> 3

\* C13: in a parallel run every process calls the barrier exactly once in each
\* of the three blocks it has passed (three times in a run that completes), in
\* a serial run never; and the barriers order the phases between processes: no
\* process makes an adjoint iteration while another is still in or before its
\* direct loop, and none computes the metric while another is still in or
\* before its adjoint loop.
C13_BarriersOnlyInParallel ==
  /\ \A p \in Procs :
       barriersEntered[p] = IF with_MPI THEN BlocksAbove(procPc[p]) ELSE 0
  /\ with_MPI =>
       \A a \in Procs, b \in Procs :
         /\ adjointStepped[a] => procPc[b] \in PastDirectLoop
         /\ procPc[a] \in MetricComputed => procPc[b] \in PastAdjointLoop

C13_Witness ==
  /\ with_MPI
  /\ procPc[0] = "L206"
  /\ barriersEntered[0] = 3
  /\ adjointStepped[0]
  /\ procPc[1] = "L187"

\* C18 as stated: in a parallel run no process constructs its error-estimation
\* driver before every process has finished its adjoint loop.
C18_ConstructionGated ==
  with_MPI =>
    \A a \in Procs, b \in Procs :
      procPc[a] \in ErrorConstructed => procPc[b] \in PastAdjointLoop

\* C18: in a parallel run the third barrier comes after the construction of the
\* error-estimation driver: no process calls ComputeMetric before every process
\* has constructed its error-estimation driver, while a process may construct
\* its own as soon as every process has left the direct loop.
C18_MetricGated ==
  with_MPI =>
    \A a \in Procs, b \in Procs :
      /\ procPc[a] \in {"L187"} \cup MetricComputed => procPc[b] \in ErrorConstructed
      /\ procPc[a] \in ErrorConstructed => procPc[b] \in PastDirectLoop

C18_Witness ==
  /\ with_MPI
  /\ procPc[0] = "L203"
  /\ procPc[1] = "L184"
  /\ barriersEntered = [p \in Procs |-> 3]

\* C20: a process that waits inside a barrier is waited for by no process in
\* which main has already returned: every process that has returned has made
\* at least as many barrier calls as the one waiting.
C20_NoWaitForReturned ==
  \A a \in Procs, b \in Procs :
    procPc[a] \in InBarrier /\ procPc[b] \in ParReturned
      => barriersEntered[b] >= barriersEntered[a]


====
